---------------------------- MODULE Spec2Model ----------------------------
(***************************************************************************)
(* A model of the Plant_Generator core: the L-system rewriting engine      *)
(* (l_system.py), the Plant built on it and the branch mutation engine     *)
(* (plant.py).                                                             *)
(*                                                                         *)
(* Strings are sequences of one-character strings.  Python indexes are     *)
(* 0-based and are kept 0-based in every operator that models the code;    *)
(* only the access to a TLA+ sequence adds 1.                              *)
(*                                                                         *)
(* Floats: every float constant of the code (0.1, 0.15, 0.35, 0.5, 1.5,    *)
(* 2.5, and the integers 1.0, 2.0, 3.0) is a multiple of 0.05; lengths and *)
(* weights are integers counting units of 0.05 (20 units make 1.0).        *)
(***************************************************************************)
EXTENDS Integers, Sequences, FiniteSets, TLC

VARIABLES
    branch,     \* the branch-rule string handed to / returned by get_mutated_branch
    mutation,   \* the operator index the last get_mutated_branch call selected (-1: none yet)
    raised,     \* the exception the last call raised ("none" when it returned)
    lsys,       \* an LSystem object: its alphabet, rules, axiom and state
    n_left,     \* the iterations the running step(n) call still has to make (0: no call runs)
    calls,      \* the number of step(n) calls made since the last reset
    asked,      \* the sum of their arguments n
    plant,      \* the Plant get_mutation is called on
    new_plant,  \* the Plant the last get_mutation call returned (NoPlant: none yet)
    error,      \* what the last Plant operation failed with ("none" when it returned)
    picks,      \* the number of times a returned Plant has been picked as the next parent
    turtle,     \* the locals of one update_draw_settings call and the Plant fields it writes
    ui,         \* the MutationWindow, its options in the UIManager, and the process
    rules_call  \* the locals of one get_random_rules call, and how it ended

mutate_vars == <<branch, mutation, raised>>
step_vars == <<lsys, n_left, calls, asked>>
plant_vars == <<plant, new_plant, error, picks>>
draw_vars == <<turtle>>
ui_vars == <<ui>>
random_vars == <<rules_call>>
vars == <<branch, mutation, raised, lsys, n_left, calls, asked, plant, new_plant, error, picks, turtle, ui, rules_call>>

-----------------------------------------------------------------------------
(* Bounds of the model *)

\* get_mutated_branch is called on the preset branches and on every branch of at
\* most this many symbols
MaxLen == 3

\* and on every branch of at least four leaves 'X' and at most this many symbols
MaxLeafy == 6

\* a rewriting is followed while the state has at most this many symbols more
\* than the axiom
MaxGrowth == 4

\* the largest argument of a step(n) call, and the largest sum of the arguments
\* of the calls between two resets
MaxN == 2
MaxAsked == 4

\* the number of step(n) calls between two resets
MaxCalls == 3

\* get_mutation returns the children whose X-rule candidates have at most this
\* many symbols
MaxBranch == 2

\* random.uniform draws the end points of its range and the multiples of this
\* many units of 0.05 between them
Grain == 20

\* get_mutation is called on the Plants fewer than this many picks away from
\* the initial ones
MaxGenerations == 1

-----------------------------------------------------------------------------
(* Python helpers *)

Min(a, b) == IF a < b THEN a ELSE b
Max(a, b) == IF a > b THEN a ELSE b

\* a slice bound i of a sequence of length n, as Python normalises it
SliceBound(n, i) == IF i < 0 THEN Max(n + i, 0) ELSE Min(i, n)

\* s[:i]
PyTake(s, i) == SubSeq(s, 1, SliceBound(Len(s), i))

\* s[i:]
PyDrop(s, i) == SubSeq(s, SliceBound(Len(s), i) + 1, Len(s))

\* s[i] is defined (no IndexError)
PyInRange(s, i) == -Len(s) <= i /\ i < Len(s)

\* s[i], for an index in range
PyAt(s, i) == IF i < 0 THEN s[Len(s) + i + 1] ELSE s[i + 1]

\* c * n: the string of n copies of c
Repeat(c, n) == [j \in 1..n |-> c]

\* char in string
In(c, s) == \E j \in 1..Len(s) : s[j] = c

\* string.count(c)
Count(s, c) == Cardinality({j \in 1..Len(s) : s[j] = c})

RECURSIVE BitAnd(_, _)
\* a & b on naturals
BitAnd(a, b) ==
    IF a = 0 \/ b = 0 THEN 0
    ELSE (a % 2) * (b % 2) + 2 * BitAnd(a \div 2, b \div 2)

RECURSIVE Pow2(_)
Pow2(i) == IF i = 0 THEN 1 ELSE 2 * Pow2(i - 1)

RECURSIVE SumTo(_, _)
\* w[1] + ... + w[j]
SumTo(w, j) == IF j = 0 THEN 0 ELSE SumTo(w, j - 1) + w[j]

\* the index bisect(cum_weights, x, 0, hi) returns: the number of the first hi
\* cumulative weights that are <= x
Bisect(w, x, hi) == Cardinality({j \in 1..hi : SumTo(w, j) <= x})

\* random.choices(population, weights)[0], as the 0-based index drawn: total is
\* the last cumulative weight, the draw random() * total lies in [0, total) and
\* is bisected with hi = n - 1.  The empty set stands for the ValueError that
\* a total <= 0 raises.
choices(w) ==
    LET total == SumTo(w, Len(w))
    IN  IF total <= 0 THEN {}
        ELSE {Bisect(w, x, Len(w) - 1) : x \in 0..(total - 1)}

-----------------------------------------------------------------------------
(* l_system.py: the rewriting engine *)

\* a rule that is a str
Str(s) == [kind |-> "str", string |-> s]

\* a rule that is a tuple (population, weights)
Choice(population, weights) ==
    [kind |-> "choice", population |-> population, weights |-> weights]

\* LSystem.__init__
LSystem(alphabet, rules, axiom) ==
    [alphabet |-> alphabet, rules |-> rules, axiom |-> axiom, state |-> axiom]

\* an image drawn from the candidates whatever their weights
SymbolImagesAnyWeight(rules, symbol) ==
    IF symbol \in DOMAIN rules
    THEN LET symbol_rule == rules[symbol]
         IN  IF symbol_rule.kind = "str" THEN {symbol_rule.string}
             ELSE {symbol_rule.population[j] : j \in 1..Len(symbol_rule.population)}
    ELSE {<<symbol>>}

\* the body of the loop over the symbols: what one symbol adds to next_state.
\* The empty set stands for the ValueError random.choices raises.
SymbolImages(rules, symbol) ==
    IF symbol \in DOMAIN rules
    THEN LET symbol_rule == rules[symbol]
         IN  IF symbol_rule.kind = "str"
             THEN {symbol_rule.string}
             ELSE {symbol_rule.population[k + 1] : k \in choices(symbol_rule.weights)}
    ELSE {<<symbol>>}

RECURSIVE NextStatesButLast(_, _)
\* an iteration that leaves the last symbol of the state out
NextStatesButLast(self, i) ==
    IF i = 0 THEN {<<>>}
    ELSE {p[1] \o p[2] :
            p \in {q \in NextStatesButLast(self, i - 1) \X
                            (IF i = Len(self.state) THEN {<<>>}
                             ELSE SymbolImages(self.rules, self.state[i])) :
                        Len(q[1]) + Len(q[2]) <= Len(self.axiom) + MaxGrowth}}

RECURSIVE NextStates(_, _)
\* one iteration of step: the values of next_state after the first i symbols of
\* self.state (those of at most MaxGrowth symbols more than the axiom)
NextStates(self, i) ==
    IF i = 0 THEN {<<>>}
    ELSE {p[1] \o p[2] :
            p \in {q \in NextStates(self, i - 1) \X SymbolImages(self.rules, self.state[i]) :
                        Len(q[1]) + Len(q[2]) <= Len(self.axiom) + MaxGrowth}}

\* an iteration of step raises on this state
StepRaises(self) ==
    \E j \in 1..Len(self.state) : SymbolImages(self.rules, self.state[j]) = {}

RECURSIVE StepAll(_, _)
\* what n iterations of the loop of step can make of any of the systems
StepAll(selves, n) ==
    IF n = 0 THEN selves
    ELSE StepAll(UNION {{[self EXCEPT !.state = next_state] :
                            next_state \in NextStates(self, Len(self.state))} :
                        self \in selves}, n - 1)

\* LSystem.step(n)
step(self, n) == StepAll({self}, n)

\* LSystem.reset()
reset(self) == [self EXCEPT !.state = self.axiom]

-----------------------------------------------------------------------------
(* plant.py: the mutation engine *)

ALPHABET == <<"F", "f", "X", "x", "[", "]", "+", "-">>

\* random.randint(0, len(obj) - 1); the empty set stands for the ValueError of
\* an empty range
get_random_index(obj) == 0..(Len(obj) - 1)

\* the index the shuffled scan returns: any index holding one of the
\* characters, -1 when there is none
get_random_character_index(string, characters) ==
    LET hits == {i \in 0..(Len(string) - 1) : string[i + 1] \in characters}
    IN  IF hits = {} THEN {-1} ELSE hits

\* the characters of character_set that occur in string
get_characters_in_string(character_set, string) ==
    {c \in character_set : In(c, string)}

RECURSIVE BracketScanFromPick(_, _, _)
\* a scan that keeps the picked '[' as the start whatever it passes
BracketScanFromPick(string, start_index, index) ==
    IF ~PyInRange(string, index) THEN <<>>
    ELSE IF PyAt(string, index) = "]" THEN <<start_index, index>>
         ELSE BracketScanFromPick(string, start_index, index + 1)

RECURSIVE BracketScanBeforeClose(_, _, _)
\* a scan that returns the index before the ']' it stops at
BracketScanBeforeClose(string, start_index, index) ==
    IF ~PyInRange(string, index) THEN <<>>
    ELSE LET start == IF PyAt(string, index) = "[" THEN index ELSE start_index
         IN  IF PyAt(string, index) = "]" THEN <<start, index - 1>>
             ELSE BracketScanBeforeClose(string, start, index + 1)

RECURSIVE BracketScan(_, _, _)
\* the while loop of get_bracket_indexes from position index on: <<start, end>>,
\* or <<>> when string[index] raises IndexError
BracketScan(string, start_index, index) ==
    IF ~PyInRange(string, index) THEN <<>>
    ELSE LET start == IF PyAt(string, index) = "[" THEN index ELSE start_index
         IN  IF PyAt(string, index) = "]" THEN <<start, index>>
             ELSE BracketScan(string, start, index + 1)

get_bracket_indexes(string) ==
    {BracketScan(string, s, s) : s \in get_random_character_index(string, {"["})}

RECURSIVE RotationsOfLength(_)
\* the strings of n symbols, each of them '+' or '-'
RotationsOfLength(n) ==
    IF n = 0 THEN {<<>>}
    ELSE {Append(r, c) : r \in RotationsOfLength(n - 1), c \in {"+", "-"}}

\* a rotation whose symbols are chosen one by one
get_random_rotation_mixed(max) == UNION {RotationsOfLength(n) : n \in 1..max}

\* random.choice(('+', '-')) * random.randint(1, max)
get_random_rotation(max) ==
    {Repeat(c, n) : c \in {"+", "-"}, n \in 1..max}

get_random_branch ==
    LET rotations == get_random_rotation(4)
        withF == {PyTake(r, i) \o <<"F">> \o PyDrop(r, i) :
                    <<r, i>> \in {p \in rotations \X (1..4) : p[2] <= Len(p[1])}}
    IN  {<<"[">> \o r \o <<"X", "]">> : r \in rotations \cup withF}

\* the outcomes of replace(string, target, replacement)
replace(string, target, replacement) ==
    {PyTake(string, i) \o <<replacement>> \o PyDrop(string, i + 1) :
        i \in get_random_character_index(string, {target})}

\* weights that no test of the branch's characters has zeroed
MutationWeightsUngated(b) == <<4, 4, 4, 4, 3, 3, 2, 3, 3, 2>>

\* chars: bit i is set when ALPHABET[i] occurs in the branch
CharMask(b) ==
    SumTo([i \in 1..8 |-> IF In(ALPHABET[i], b) THEN Pow2(i - 1) ELSE 0], 8)

\* the gating with operators 3 and 4 tested on the bit of 'F'
MutationWeightsUpperCaseMask(b) ==
    LET chars == CharMask(b)
        off(mask) == BitAnd(chars, mask) = 0
        many == Count(b, "X") > 4
    IN  << IF off(192) THEN 0 ELSE 4,
           IF off(192) THEN 0 ELSE 4,
           IF off(1) THEN 0 ELSE 4,
           IF off(1) THEN 0 ELSE 4,
           IF off(1) THEN 0 ELSE 3,
           IF off(195) \/ many THEN 0 ELSE 3,
           IF off(4) THEN 0 ELSE 2,
           IF off(8) \/ many THEN 0 ELSE 3,
           IF off(16) THEN 0 ELSE 3,
           2 >>

\* the gating without the test of branch.count('X')
MutationWeightsAnyLeaves(b) ==
    LET chars == CharMask(b)
        off(mask) == BitAnd(chars, mask) = 0
        many == FALSE
    IN  << IF off(192) THEN 0 ELSE 4,
           IF off(192) THEN 0 ELSE 4,
           IF off(1) THEN 0 ELSE 4,
           IF off(2) THEN 0 ELSE 4,
           IF off(2) THEN 0 ELSE 3,
           IF off(195) \/ many THEN 0 ELSE 3,
           IF off(4) THEN 0 ELSE 2,
           IF off(8) \/ many THEN 0 ELSE 3,
           IF off(16) THEN 0 ELSE 3,
           2 >>

\* the weights list after the gating of lines 317-336 (index k + 1 holds operator k)
MutationWeights(b) ==
    LET chars == CharMask(b)
        off(mask) == BitAnd(chars, mask) = 0
        many == Count(b, "X") > 4
    IN  << IF off(192) THEN 0 ELSE 4,
           IF off(192) THEN 0 ELSE 4,
           IF off(1) THEN 0 ELSE 4,
           IF off(2) THEN 0 ELSE 4,
           IF off(2) THEN 0 ELSE 3,
           IF off(195) \/ many THEN 0 ELSE 3,
           IF off(4) THEN 0 ELSE 2,
           IF off(8) \/ many THEN 0 ELSE 3,
           IF off(16) THEN 0 ELSE 3,
           2 >>

Returned(k, s) == [mutation |-> k, raised |-> "none", branch |-> s]
Raised(k, e, b) == [mutation |-> k, raised |-> e, branch |-> b]

\* the match statement: the outcomes of operator k on the branch b
ApplyMutation(k, b) ==
    CASE k = 0 ->
           LET cs == get_characters_in_string({"+", "-"}, b)
           IN  UNION {IF PyInRange(b, i)
                      THEN {Returned(0, PyTake(b, i) \o Repeat(PyAt(b, i), n) \o PyDrop(b, i)) :
                                n \in 1..2}
                      ELSE {Raised(0, "IndexError", b)} :
                      i \in get_random_character_index(b, cs)}
      [] k = 1 ->
           LET cs == get_characters_in_string({"+", "-"}, b)
           IN  {Returned(1, PyTake(b, i) \o PyDrop(b, i + 1)) :
                    i \in get_random_character_index(b, cs)}
      [] k = 2 -> {Returned(2, s) : s \in replace(b, "F", "f")}
      [] k = 3 -> {Returned(3, s) : s \in replace(b, "f", "F")}
      [] k = 4 ->
           {Returned(4, PyTake(b, i) \o PyDrop(b, i + 1)) :
                i \in get_random_character_index(b, {"f"})}
      [] k = 5 ->
           LET cs == get_characters_in_string({"F", "f", "+", "-"}, b)
           IN  {Returned(5, PyTake(b, p[1]) \o p[2] \o PyDrop(b, p[1])) :
                    p \in get_random_character_index(b, cs) \X get_random_branch}
      [] k = 6 -> {Returned(6, s) : s \in replace(b, "X", "x")}
      [] k = 7 -> {Returned(7, s) : s \in replace(b, "x", "X")}
      [] k = 8 ->
           {IF ij = <<>> THEN Raised(8, "IndexError", b)
            ELSE Returned(8, PyTake(b, ij[1]) \o PyDrop(b, ij[2] + 1)) :
                ij \in get_bracket_indexes(b)}
      [] k = 9 ->
           IF get_random_index(b) = {} THEN {Raised(9, "ValueError", b)}
           ELSE {Returned(9, PyTake(b, p[1]) \o <<p[2]>> \o PyDrop(b, p[1])) :
                    p \in get_random_index(b) \X {"F", "f"}}
      [] OTHER -> {Returned(k, b)}

\* every outcome of one call get_mutated_branch(b)
get_mutated_branch(b) ==
    UNION {ApplyMutation(k, b) : k \in choices(MutationWeights(b))}


-----------------------------------------------------------------------------
(* plant.py: DrawSettings and the presets.  A color generator is named by  *)
(* the base color(s) it jitters around.                                    *)

DrawSettings(angle, trunk_segment_length, trunk_width, trunk_color_generator, leaf_radius, leaf_type, leaf_color_generator) ==
    [angle |-> angle, trunk_segment_length |-> trunk_segment_length,
     trunk_width |-> trunk_width, trunk_color_generator |-> trunk_color_generator,
     leaf_radius |-> leaf_radius, leaf_type |-> leaf_type,
     leaf_color_generator |-> leaf_color_generator]

LORAX_TREE_COLORS ==
    {<<250, 215, 5>>, <<250, 175, 25>>, <<250, 135, 175>>, <<180, 125, 220>>}

ASPEN_GROWTH_RULES ==
    "X" :> Choice(<<(<<"F", "[", "-", "-", "-", "X", "]", "+", "f", "-", "F", "[", "+", "+", "+", "+", "X", "]", "-", "X">>),
             (<<"F", "[", "+", "+", "+", "X", "]", "-", "F", "+", "f", "[", "-", "-", "-", "-", "X", "]", "+", "X">>)>>, <<10, 10>>)
ASPEN_AXIOM ==
    <<"F", "X">>
ASPEN_DRAW_SETTINGS ==
    DrawSettings(15, 3, 2, {<<195, 185, 175>>}, 3, 0, {<<22, 180, 80>>})
LORAX_GROWTH_RULES ==
    "X" :> Choice(<<(<<"+", "x", "f", "+", "f", "+", "X">>),
             (<<"-", "f", "x", "f", "X">>)>>, <<10, 10>>)
LORAX_AXIOM ==
    <<"f", "F", "-", "F", "+", "f", "+", "F", "[", "f", "f", "X", "]", "-", "-", "[", "f", "f", "X", "]", "-", "-", "[", "f", "f", "X", "]", "-", "-", "[", "f", "f", "X", "]", "-", "-", "[", "f", "f", "X", "]", "-", "-", "[", "f", "f", "X", "]", "-", "-", "[", "f", "f", "X", "]", "-", "-", "[", "f", "f", "X", "]", "-", "-", "[", "f", "f", "X", "]">>
LORAX_DRAW_SETTINGS ==
    DrawSettings(20, 4, 2, {<<195, 185, 175>>}, 5, 0, LORAX_TREE_COLORS)
FERN_GROWTH_RULES ==
    "X" :> Str(<<"F", "[", "+", "[", "X", "]", "+", "+", "X", "]", "[", "-", "-", "-", "-", "X", "]", "F", "f", "-", "X">>)
FERN_AXIOM ==
    <<"f", "f", "X">>
FERN_DRAW_SETTINGS ==
    DrawSettings(15, 3, 2, {<<10, 187, 63>>}, 5, 3, {<<0, 0, 0>>})
BUSH_GROWTH_RULES ==
    "X" :> Choice(<<(<<"f", "F", "[", "-", "-", "-", "F", "X", "]", "f", "[", "+", "+", "F", "+", "X", "]", "F", "X">>),
             (<<"f", "F", "[", "+", "+", "F", "+", "X", "]", "f", "[", "-", "F", "-", "-", "X", "]", "F", "X">>)>>, <<10, 10>>)
BUSH_AXIOM ==
    <<"[", "-", "-", "X", "]", "[", "+", "+", "X", "]">>
BUSH_DRAW_SETTINGS ==
    DrawSettings(15, 2, 2, {<<88, 57, 39>>}, 3, 0, {<<10, 137, 63>>})
SPOOKY_GROWTH_RULES ==
    "X" :> Choice(<<(<<"-", "F", "[", "-", "-", "-", "X", "]", "+", "F", "-", "f", "f", "[", "+", "+", "+", "f", "+", "X", "]", "-", "X">>),
             (<<"+", "F", "[", "+", "+", "+", "X", "]", "-", "f", "f", "+", "F", "[", "-", "f", "-", "-", "-", "X", "]", "+", "f", "X">>)>>, <<10, 10>>)
SPOOKY_AXIOM ==
    <<"F", "X">>
SPOOKY_DRAW_SETTINGS ==
    DrawSettings(12, 3, 2, {<<88, 57, 39>>}, 0, 3, {<<0, 0, 0>>})

\* the candidates of a rule: the string itself, or the population
Candidates(rule) == IF rule.kind = "str" THEN <<rule.string>> ELSE rule.population

\* every branch-rule string of the five presets
PRESET_BRANCHES ==
    UNION {{Candidates(g["X"])[j] : j \in 1..Len(Candidates(g["X"]))} :
            g \in {ASPEN_GROWTH_RULES, LORAX_GROWTH_RULES, FERN_GROWTH_RULES,
                   BUSH_GROWTH_RULES, SPOOKY_GROWTH_RULES}}

-----------------------------------------------------------------------------
(* plant.py: the Plant.  A position is the function that gives, for each   *)
(* heading the turtle has moved along, the distance moved along it (empty  *)
(* at the origin); a heading is a number of degrees.                       *)

\* pos + angle_vector(angle) * distance
Moved(pos, angle, distance) ==
    IF angle \in DOMAIN pos THEN [pos EXCEPT ![angle] = @ + distance]
    ELSE (angle :> distance) @@ pos

draw_trunk(start, end, width, color) ==
    [func |-> "draw_trunk", start |-> start, end |-> end, width |-> width, color |-> color]

draw_leaf(leaf_type, center, angle, rad, color) ==
    [func |-> "draw_leaf", leaf_type |-> leaf_type, center |-> center, angle |-> angle,
     rad |-> rad, color |-> color]

RECURSIVE Interpret(_, _, _, _, _, _, _, _)
\* the loop of update_draw_settings from index i on; state is the padded state.
\* queue.get() on the empty LifoQueue never returns: the pass is blocked there.
Interpret(state, draw_settings, i, pos, angle, queue, f, render_funcs) ==
    IF i >= Len(state) - 1
    THEN [blocked |-> FALSE, render_funcs |-> render_funcs, queue |-> queue]
    ELSE LET symbol == state[i + 1]
         IN  CASE symbol \in {"F", "f"} ->
                    IF state[i + 2] \notin {"F", "f"}
                    THEN LET new_pos == Moved(pos, angle, (f + 1) * draw_settings.trunk_segment_length)
                         IN  Interpret(state, draw_settings, i + 1, new_pos, angle, queue, 0,
                                       <<draw_trunk(pos, new_pos, draw_settings.trunk_width,
                                                    draw_settings.trunk_color_generator)>>
                                       \o render_funcs)
                    ELSE Interpret(state, draw_settings, i + 1, pos, angle, queue, f + 1, render_funcs)
               [] symbol \in {"X", "x"} ->
                    Interpret(state, draw_settings, i + 1, pos, angle, queue, f,
                              Append(render_funcs,
                                     draw_leaf(draw_settings.leaf_type, pos, angle,
                                               draw_settings.leaf_radius,
                                               draw_settings.leaf_color_generator)))
               [] symbol = "+" ->
                    Interpret(state, draw_settings, i + 1, pos, angle + draw_settings.angle,
                              queue, f, render_funcs)
               [] symbol = "-" ->
                    Interpret(state, draw_settings, i + 1, pos, angle - draw_settings.angle,
                              queue, f, render_funcs)
               [] symbol = "[" ->
                    Interpret(state, draw_settings, i + 1, pos, angle,
                              Append(queue, <<pos, angle>>), f, render_funcs)
               [] symbol = "]" ->
                    IF queue = <<>>
                    THEN [blocked |-> TRUE, render_funcs |-> render_funcs, queue |-> queue]
                    ELSE Interpret(state, draw_settings, i + 1, queue[Len(queue)][1],
                                   queue[Len(queue)][2], SubSeq(queue, 1, Len(queue) - 1),
                                   f, render_funcs)
               [] OTHER ->
                    Interpret(state, draw_settings, i + 1, pos, angle, queue, f, render_funcs)

\* the interpretation pass over a state string
update_draw_settings(state, draw_settings) ==
    Interpret(state \o <<" ">>, draw_settings, 0, <<>>, 90, <<>>, 0, <<>>)

\* queue.get() of a queue that hands out the entry put first
QueueGetFirstIn(queue) == [item |-> queue[1], queue |-> Tail(queue)]

\* queue.get() of the LifoQueue, not empty: the entry put last is taken out
QueueGet(queue) ==
    [item |-> queue[Len(queue)], queue |-> SubSeq(queue, 1, Len(queue) - 1)]

\* no update_draw_settings call has been made
NoTurtle == [status |-> "unused"]

\* no MutationWindow has been made
NoWindow == [status |-> "unused"]

\* no get_random_rules call has been made
NoCall == [pc |-> "unused"]

\* update_draw_settings up to the loop: the locals are set and the state is padded
DrawStarted(state, draw_settings) ==
    [status |-> "running", state |-> state \o <<" ">>, draw_settings |-> draw_settings,
     i |-> 0, pos |-> <<>>, angle |-> 90, queue |-> <<>>, f |-> 0,
     render_funcs |-> <<>>, seen |-> <<>>]

\* the run counter keeps counting after a trunk command has been emitted
IterationCountingOn(t) ==
    LET symbol == PyAt(t.state, t.i)
        ds == t.draw_settings
        next == [t EXCEPT !.i = t.i + 1, !.seen = Append(t.seen, <<t.pos, t.angle>>)]
    IN  CASE symbol \in {"F", "f"} ->
                IF PyAt(t.state, t.i + 1) \notin {"F", "f"}
                THEN LET new_pos == Moved(t.pos, t.angle, (t.f + 1) * ds.trunk_segment_length)
                     IN  [next EXCEPT !.render_funcs =
                                        <<draw_trunk(t.pos, new_pos, ds.trunk_width,
                                                     ds.trunk_color_generator)>> \o @,
                                      !.pos = new_pos,
                                      !.f = t.f + 1]
                ELSE [next EXCEPT !.f = t.f + 1]
           [] symbol \in {"X", "x"} ->
                [next EXCEPT !.render_funcs =
                                Append(@, draw_leaf(ds.leaf_type, t.pos, t.angle,
                                                    ds.leaf_radius, ds.leaf_color_generator))]
           [] symbol = "+" -> [next EXCEPT !.angle = t.angle + ds.angle]
           [] symbol = "-" -> [next EXCEPT !.angle = t.angle - ds.angle]
           [] symbol = "[" -> [next EXCEPT !.queue = Append(@, <<t.pos, t.angle>>)]
           [] symbol = "]" ->
                IF t.queue = <<>> THEN [t EXCEPT !.status = "blocked"]
                ELSE LET got == QueueGet(t.queue)
                     IN  [next EXCEPT !.pos = got.item[1], !.angle = got.item[2],
                                      !.queue = got.queue]
           [] OTHER -> next

\* a trunk command is put at the back of the list, as a leaf command is
IterationAppendingTrunks(t) ==
    LET symbol == PyAt(t.state, t.i)
        ds == t.draw_settings
        next == [t EXCEPT !.i = t.i + 1, !.seen = Append(t.seen, <<t.pos, t.angle>>)]
    IN  CASE symbol \in {"F", "f"} ->
                IF PyAt(t.state, t.i + 1) \notin {"F", "f"}
                THEN LET new_pos == Moved(t.pos, t.angle, (t.f + 1) * ds.trunk_segment_length)
                     IN  [next EXCEPT !.render_funcs =
                                        Append(@, draw_trunk(t.pos, new_pos, ds.trunk_width,
                                                             ds.trunk_color_generator)),
                                      !.pos = new_pos,
                                      !.f = 0]
                ELSE [next EXCEPT !.f = t.f + 1]
           [] symbol \in {"X", "x"} ->
                [next EXCEPT !.render_funcs =
                                Append(@, draw_leaf(ds.leaf_type, t.pos, t.angle,
                                                    ds.leaf_radius, ds.leaf_color_generator))]
           [] symbol = "+" -> [next EXCEPT !.angle = t.angle + ds.angle]
           [] symbol = "-" -> [next EXCEPT !.angle = t.angle - ds.angle]
           [] symbol = "[" -> [next EXCEPT !.queue = Append(@, <<t.pos, t.angle>>)]
           [] symbol = "]" ->
                IF t.queue = <<>> THEN [t EXCEPT !.status = "blocked"]
                ELSE LET got == QueueGet(t.queue)
                     IN  [next EXCEPT !.pos = got.item[1], !.angle = got.item[2],
                                      !.queue = got.queue]
           [] OTHER -> next

\* one iteration of the loop of update_draw_settings, on self.state[i].  seen
\* records the (pos, angle) each iteration started with.  queue.get() on the
\* empty LifoQueue waits for a put that no one makes: the call stays there.
Iteration(t) ==
    LET symbol == PyAt(t.state, t.i)
        ds == t.draw_settings
        next == [t EXCEPT !.i = t.i + 1, !.seen = Append(t.seen, <<t.pos, t.angle>>)]
    IN  CASE symbol \in {"F", "f"} ->
                IF PyAt(t.state, t.i + 1) \notin {"F", "f"}
                THEN LET new_pos == Moved(t.pos, t.angle, (t.f + 1) * ds.trunk_segment_length)
                     IN  [next EXCEPT !.render_funcs =
                                        <<draw_trunk(t.pos, new_pos, ds.trunk_width,
                                                     ds.trunk_color_generator)>> \o @,
                                      !.pos = new_pos,
                                      !.f = 0]
                ELSE [next EXCEPT !.f = t.f + 1]
           [] symbol \in {"X", "x"} ->
                [next EXCEPT !.render_funcs =
                                Append(@, draw_leaf(ds.leaf_type, t.pos, t.angle,
                                                    ds.leaf_radius, ds.leaf_color_generator))]
           [] symbol = "+" -> [next EXCEPT !.angle = t.angle + ds.angle]
           [] symbol = "-" -> [next EXCEPT !.angle = t.angle - ds.angle]
           [] symbol = "[" -> [next EXCEPT !.queue = Append(@, <<t.pos, t.angle>>)]
           [] symbol = "]" ->
                IF t.queue = <<>> THEN [t EXCEPT !.status = "blocked"]
                ELSE LET got == QueueGet(t.queue)
                     IN  [next EXCEPT !.pos = got.item[1], !.angle = got.item[2],
                                      !.queue = got.queue]
           [] OTHER -> next

\* the weights put one candidate earlier: on the candidates int(length) and
\* int(length) + 1 counted from 1
LengthWeightsCountedFromOne(length) ==
    LET a == length \div 20
        b == a + 1
    IN  [j \in 1..4 |-> IF j = a THEN b * 20 - length
                        ELSE IF j = b THEN length - a * 20 ELSE 0]

\* the weights list of get_length_rule; length counts units of 0.05
LengthWeights(length) ==
    LET a == length \div 20
        b == a + 1
    IN  [j \in 1..4 |-> IF j = a + 1 THEN b * 20 - length
                        ELSE IF j = b + 1 THEN length - a * 20 ELSE 0]

\* weights[b] is outside the four-entry list
LengthRuleRaises(length) == (length \div 20) + 1 > 3

get_length_rule(length) ==
    "F" :> Choice(<<(<<"F">>), (<<"F", "f">>), (<<"F", "F">>), (<<"F", "f", "F">>)>>,
                  LengthWeights(length))

NoPlant == [alphabet |-> <<>>]

Ok(self) == [raised |-> "none", plant |-> self]
Failed(e) == [raised |-> e, plant |-> NoPlant]

\* random.choices raises ValueError in one of the n iterations
StepCanRaise(self, n) ==
    \E k \in 0..(n - 1) : \E s \in step(self, k) : StepRaises(s)

\* the outcomes of self.regrow(): reset, step(4), update_draw_settings
regrow(self) ==
    (IF StepCanRaise(reset(self), 4) THEN {Failed("ValueError")} ELSE {})
    \cup
    {LET drawn == update_draw_settings(grown.state, grown.draw_settings)
     IN  IF drawn.blocked THEN Failed("blocked")
         ELSE Ok([grown EXCEPT !.render_funcs = drawn.render_funcs]) :
        grown \in step(reset(self), 4)}

\* the outcomes of Plant(growth_rules, axiom, draw_settings, length)
Plant(growth_rules, axiom, draw_settings, length) ==
    IF LengthRuleRaises(length) THEN {Failed("IndexError")}
    ELSE regrow([alphabet |-> ALPHABET,
                 rules |-> growth_rules @@ get_length_rule(length),
                 axiom |-> axiom,
                 state |-> axiom,
                 draw_settings |-> draw_settings,
                 length |-> length,
                 render_funcs |-> <<>>])

\* random.uniform(a, b), drawn from the end points and the multiples of Grain
\* between them
uniform(a, b) ==
    {x \in Min(a, b)..Max(a, b) : x \in {a, b} \/ x % Grain = 0}

\* new_branch = get_mutated_branch(old_branch) and, one time in four,
\* new_branch = get_mutated_branch(new_branch)
MutatedBranch(old_branch) ==
    LET first == get_mutated_branch(old_branch)
    IN  {[raised |-> o.raised, branch |-> o.branch] :
            o \in first \cup UNION {get_mutated_branch(r.branch) :
                                        r \in {q \in first : q.raised = "none"}}}

\* the branches a child is built from: those of at most MaxBranch symbols
Followed(outcomes) ==
    {o \in outcomes : o.raised # "none" \/ Len(o.branch) <= MaxBranch}

RECURSIVE NewBranchesFromLast(_, _)
\* a loop that runs over old_branches from the last one to the first
NewBranchesFromLast(old_branches, i) ==
    IF i = 0 THEN {[raised |-> "none", new_branches |-> <<>>]}
    ELSE UNION {IF prev.raised # "none" THEN {prev}
                ELSE {[raised |-> o.raised,
                       new_branches |-> IF o.raised = "none"
                                        THEN Append(prev.new_branches, o.branch)
                                        ELSE prev.new_branches] :
                        o \in Followed(MutatedBranch(old_branches[Len(old_branches) - i + 1]))} :
                prev \in NewBranchesFromLast(old_branches, i - 1)}

RECURSIVE NewBranches(_, _)
\* new_branches after the first i rounds of the loop over old_branches
NewBranches(old_branches, i) ==
    IF i = 0 THEN {[raised |-> "none", new_branches |-> <<>>]}
    ELSE UNION {IF prev.raised # "none" THEN {prev}
                ELSE {[raised |-> o.raised,
                       new_branches |-> IF o.raised = "none"
                                        THEN Append(prev.new_branches, o.branch)
                                        ELSE prev.new_branches] :
                        o \in Followed(MutatedBranch(old_branches[i]))} :
                prev \in NewBranches(old_branches, i - 1)}

RECURSIVE NewProbabilitiesUnclamped(_, _)
\* weights perturbed without the lower clamp at 0.1
NewProbabilitiesUnclamped(probabilities, i) ==
    IF i = 0 THEN {<<>>}
    ELSE {Append(p, w) : p \in NewProbabilitiesUnclamped(probabilities, i - 1),
                         w \in uniform(probabilities[i] - 3, probabilities[i] + 3)}

RECURSIVE NewProbabilities(_, _)
\* the first i entries of new_probabilities
NewProbabilities(probabilities, i) ==
    IF i = 0 THEN {<<>>}
    ELSE {Append(p, w) : p \in NewProbabilities(probabilities, i - 1),
                         w \in uniform(Max(2, probabilities[i] - 3), probabilities[i] + 3)}

\* a length perturbed without the clamps at 0.5 and 2.5
NewLengthUnclamped(length) == uniform(length - 7, length + 7)

\* new_length = random.uniform(max(0.5, length - 0.35), min(2.5, length + 0.35))
NewLength(length) == uniform(Max(10, length - 7), Min(50, length + 7))

\* the outcomes of self.get_mutation()
get_mutation(self) ==
    LET rules == self.rules["X"]
        new_lengths == NewLength(self.length)
    IN  IF rules.kind = "str"
        THEN UNION {IF new_rule.raised # "none" THEN {Failed(new_rule.raised)}
                    ELSE UNION {Plant("X" :> Str(new_rule.branch), self.axiom,
                                      self.draw_settings, new_length) :
                                    new_length \in new_lengths} :
                    new_rule \in Followed(MutatedBranch(rules.string))}
        ELSE UNION {IF made.raised # "none" THEN {Failed(made.raised)}
                    ELSE UNION {Plant("X" :> Choice(made.new_branches, new_probabilities),
                                      self.axiom, self.draw_settings, new_length) :
                                    new_probabilities \in
                                        NewProbabilities(rules.weights, Len(rules.weights)),
                                    new_length \in new_lengths} :
                    made \in NewBranches(rules.population, Len(rules.population))}

-----------------------------------------------------------------------------
(* Properly nested strings over the alphabet *)

RECURSIVE Depth(_, _)
\* the number of '[' minus the number of ']' among the first n symbols
Depth(s, n) ==
    IF n = 0 THEN 0
    ELSE Depth(s, n - 1) + (IF s[n] = "[" THEN 1 ELSE IF s[n] = "]" THEN -1 ELSE 0)

ProperlyNested(s) ==
    /\ \A n \in 0..Len(s) : Depth(s, n) >= 0
    /\ Depth(s, Len(s)) = 0

OverAlphabet(s) == \A j \in 1..Len(s) : \E i \in 1..8 : s[j] = ALPHABET[i]

\* every string over the alphabet of length n
RECURSIVE Strings(_)
Strings(n) ==
    IF n = 0 THEN {<<>>}
    ELSE {Append(s, ALPHABET[i]) : s \in Strings(n - 1), i \in 1..8}

NestedStrings(n) == {s \in UNION {Strings(m) : m \in 0..n} : ProperlyNested(s)}

-----------------------------------------------------------------------------
(* The chain of get_mutated_branch calls on one branch *)

NoSystem == LSystem(<<>>, <<>>, <<>>)

StepUnused == lsys = NoSystem /\ n_left = 0 /\ calls = 0 /\ asked = 0
MutateUnused == branch = <<>> /\ mutation = -1 /\ raised = "none"
PlantUnused == plant = NoPlant /\ new_plant = NoPlant /\ error = "none" /\ picks = 0
DrawUnused == turtle = NoTurtle
UIUnused == ui = NoWindow
RandomUnused == rules_call = NoCall

\* branches of four and five leaves 'X'
LEAFY_BRANCHES ==
    {<<"X", "X", "X", "X", "x">>, <<"X", "X", "X", "X", "X", "x">>,
     <<"F", "X", "X", "X", "X">>}

InitMutate ==
    /\ branch \in NestedStrings(MaxLen) \cup PRESET_BRANCHES \cup LEAFY_BRANCHES
    /\ mutation = -1
    /\ raised = "none"
    /\ StepUnused
    /\ PlantUnused
    /\ DrawUnused
    /\ UIUnused
    /\ RandomUnused

\* one call branch = get_mutated_branch(branch) in which operator k is selected
Mutate(k) ==
    /\ raised = "none"
    /\ \/ Len(branch) <= MaxLen
       \/ mutation = -1 /\ branch \in PRESET_BRANCHES
       \/ Count(branch, "X") >= 4 /\ Len(branch) <= MaxLeafy
    /\ k \in choices(MutationWeights(branch))
    /\ \E out \in ApplyMutation(k, branch) :
        /\ branch' = out.branch
        /\ mutation' = out.mutation
        /\ raised' = out.raised
    /\ UNCHANGED <<step_vars, plant_vars, draw_vars, ui_vars, random_vars>>

NextMutate ==
    \/ Mutate(0) \/ Mutate(1) \/ Mutate(2) \/ Mutate(3) \/ Mutate(4)
    \/ Mutate(5) \/ Mutate(6) \/ Mutate(7) \/ Mutate(8) \/ Mutate(9)

SpecMutate == InitMutate /\ [][NextMutate]_vars

\* C1: whenever get_mutated_branch returns on a properly nested branch, whichever
\* of the ten operators it selected, the returned string is properly nested and
\* over the alphabet; so it is after any number of successive calls.
MutatePreservesNesting ==
    raised = "none" => ProperlyNested(branch) /\ OverAlphabet(branch)

\* operator 8 has removed the inner pair "[X]" of the Fern branch, which lies
\* inside another pair
NestedPairRemoved ==
    /\ mutation = 8
    /\ raised = "none"
    /\ branch = <<"F", "[", "+", "+", "+", "X", "]", "[", "-", "-", "-", "-", "X", "]", "F", "f", "-", "X">>

\* C2: get_mutated_branch returns, without raising, on every properly nested
\* string of any length from zero upward, the strings earlier calls returned
\* included.
MutateNeverRaises == raised = "none"

\* the precondition of operator k in the operator table
Precondition(k, b) ==
    CASE k \in {0, 1} -> In("+", b) \/ In("-", b)
      [] k = 2 -> In("F", b)
      [] k \in {3, 4} -> In("f", b)
      [] k = 5 -> (In("F", b) \/ In("f", b) \/ In("+", b) \/ In("-", b)) /\ Count(b, "X") <= 4
      [] k = 6 -> In("X", b)
      [] k = 7 -> In("x", b) /\ Count(b, "X") <= 4
      [] k = 8 -> In("[", b)
      [] OTHER -> TRUE

\* what the get_random_character_index call of operator k can return on b
Search(k, b) ==
    CASE k \in {0, 1} ->
            get_random_character_index(b, get_characters_in_string({"+", "-"}, b))
      [] k = 2 -> get_random_character_index(b, {"F"})
      [] k \in {3, 4} -> get_random_character_index(b, {"f"})
      [] k = 5 ->
            get_random_character_index(b, get_characters_in_string({"F", "f", "+", "-"}, b))
      [] k = 6 -> get_random_character_index(b, {"X"})
      [] k = 7 -> get_random_character_index(b, {"x"})
      [] k = 8 -> get_random_character_index(b, {"["})
      [] OTHER -> {}

\* C16: whenever a get_mutated_branch call selects an operator k in 0..8, the
\* precondition of k in the operator table holds for the branch it was called
\* on, and the occurrence search of k cannot return -1 on that branch
SelectedOperatorQualifies ==
    [][mutation' \in 0..8 =>
            /\ Precondition(mutation', branch)
            /\ -1 \notin Search(mutation', branch)]_vars

\* operator 0 was selected on a branch whose only rotation is one '-': the
\* search found it and it was doubled
RotationDoubled ==
    /\ mutation = 0
    /\ raised = "none"
    /\ branch = <<"F", "-", "-">>

\* C17: no call selects operator 5 or 7 on a branch of more than four 'X', and
\* a call returns a branch of no more 'X' than the larger of 5 and the number
\* in the branch it was called on; so the number stays at most the larger of 5
\* and the initial one along any sequence of calls
LeavesBounded ==
    [][/\ Count(branch, "X") > 4 => mutation' \notin {5, 7}
       /\ raised' = "none" => Count(branch', "X") <= Max(5, Count(branch, "X"))]_vars

\* a branch of five 'X' and an 'x' has been mutated, by operator 9: the 'x' is
\* still there
FiveLeavesMutated ==
    /\ mutation = 9
    /\ raised = "none"
    /\ Count(branch, "X") = 5
    /\ Count(branch, "x") = 1

\* C18: on a properly nested branch that contains '[', operator 8 returns the
\* branch without one span i..j and with everything else in order: for some
\* picked '[' at p <= i, the span starts with a '[', ends with the first ']'
\* after p and holds no other bracket; the scan does not run off the string
RemovesInnermostSpan ==
    [][(mutation' = 8 /\ ProperlyNested(branch) /\ In("[", branch)) =>
            /\ raised' = "none"
            /\ \E p \in 0..(Len(branch) - 1) : \E i \in p..(Len(branch) - 1) :
               \E j \in (i + 1)..(Len(branch) - 1) :
                    /\ PyAt(branch, p) = "["
                    /\ PyAt(branch, i) = "["
                    /\ PyAt(branch, j) = "]"
                    /\ \A m \in p..(j - 1) : PyAt(branch, m) # "]"
                    /\ \A m \in (i + 1)..(j - 1) : PyAt(branch, m) \notin {"[", "]"}
                    /\ branch' = PyTake(branch, i) \o PyDrop(branch, j + 1)]_vars

\* operator 8 has removed the second pair "[----X]" of the Fern branch
SecondPairRemoved ==
    /\ mutation = 8
    /\ raised = "none"
    /\ branch = <<"F", "[", "+", "[", "X", "]", "+", "+", "X", "]", "F", "f", "-", "X">>

\* C19: operator 9 can insert at each of the len(branch) + 1 positions of a
\* branch that is not empty, before the first character and after the last one
\* included: each of 'F' and 'f' put at each position is an outcome
InsertsAtEveryPosition ==
    (raised = "none" /\ branch # <<>>) =>
        \A p \in 0..Len(branch) : \A c \in {"F", "f"} :
            PyTake(branch, p) \o <<c>> \o PyDrop(branch, p)
                \in {o.branch : o \in ApplyMutation(9, branch)}

\* '[' + run + 'X]', the run being 1 to 4 times '+' or 1 to 4 times '-', and at
\* most one 'F' among them
SubBranchForm(s) ==
    /\ Len(s) \in 4..8
    /\ s[1] = "[" /\ s[Len(s) - 1] = "X" /\ s[Len(s)] = "]"
    /\ LET run == SubSeq(s, 2, Len(s) - 2)
       IN  /\ Count(run, "F") <= 1
           /\ Len(run) - Count(run, "F") \in 1..4
           /\ \E c \in {"+", "-"} : \A m \in 1..Len(run) : run[m] \in {c, "F"}
    /\ ProperlyNested(s)
    /\ Count(s, "X") = 1
    /\ Count(s, "x") = 0

\* C20: every string get_random_branch can return has the form '[' + run + 'X]'
\* (1 to 4 equal rotation symbols and at most one 'F'), is properly nested and
\* has one 'X' and no 'x'; operator 5 puts such a string right before an
\* occurrence of F, f, + or - and leaves the other characters as they are
InsertsSubBranch ==
    [][mutation' = 5 =>
            /\ \A s \in get_random_branch : SubBranchForm(s)
            /\ \E i \in 0..(Len(branch) - 1) : \E n \in 4..8 :
                    /\ PyAt(branch, i) \in {"F", "f", "+", "-"}
                    /\ Len(branch') = Len(branch) + n
                    /\ SubBranchForm(SubSeq(branch', i + 1, i + n))
                    /\ branch' = PyTake(branch, i) \o SubSeq(branch', i + 1, i + n)
                                    \o PyDrop(branch, i)]_vars

\* operator 5 has put "[---F-X]" before the 'f' of the branch "Xf"
SubBranchInserted ==
    /\ mutation = 5
    /\ raised = "none"
    /\ branch = <<"X", "[", "-", "-", "-", "F", "-", "X", "]", "f">>

-----------------------------------------------------------------------------
(* An LSystem under reset() and step(n) calls *)

\* the grammar A -> AB, B -> B with axiom A
AB_SYSTEM ==
    LSystem(<<"A", "B">>, [c \in {"A", "B"} |-> IF c = "A" THEN Str(<<"A", "B">>) ELSE Str(<<"B">>)], <<"A">>)

\* the rule tables and axioms the engine is run on
Systems ==
    {AB_SYSTEM,
     LSystem(<<"A", "B">>, [c \in {"A", "B"} |-> IF c = "A" THEN Str(<<"B">>) ELSE Str(<<"A", "B">>)], <<"A", "B">>),
     LSystem(<<"A", "B">>, [c \in {"A"} |-> Str(<<"B", "A", "B">>)], <<"A", "B">>),
     LSystem(<<"A", "B">>, [c \in {"A"} |-> Choice(<<(<<"A", "B">>), (<<"B">>)>>, <<1, 0>>)], <<"A", "A">>),
     LSystem(<<"A", "B">>, [c \in {"A"} |-> Choice(<<(<<"B">>), (<<"A", "A">>), (<<"A", "B">>)>>, <<0, 2, 1>>)], <<"A">>),
     LSystem(<<"A", "B">>, [c \in {"A", "B"} |->
                IF c = "A" THEN Choice(<<(<<"A", "B">>), (<<"B", "A">>)>>, <<1, 1>>)
                ELSE Choice(<<(<<"A">>), (<<"B">>)>>, <<1, 3>>)], <<"A", "B">>)}

InitStep ==
    /\ lsys \in Systems
    /\ n_left = 0
    /\ calls = 0
    /\ asked = 0
    /\ MutateUnused
    /\ PlantUnused
    /\ DrawUnused
    /\ UIUnused
    /\ RandomUnused

\* LSystem.reset
Reset ==
    /\ n_left = 0
    /\ lsys' = reset(lsys)
    /\ calls' = 0
    /\ asked' = 0
    /\ UNCHANGED <<n_left, mutate_vars, plant_vars, draw_vars, ui_vars, random_vars>>

\* a call that is to make one iteration more than its argument
StepCallOneMore(n) ==
    /\ n_left = 0
    /\ calls < MaxCalls
    /\ asked + n <= MaxAsked
    /\ n_left' = n + 1
    /\ calls' = calls + 1
    /\ asked' = asked + n
    /\ UNCHANGED <<lsys, mutate_vars, plant_vars, draw_vars, ui_vars, random_vars>>

\* the call step(n): range(n) is to be run through
StepCall(n) ==
    /\ n_left = 0
    /\ calls < MaxCalls
    /\ asked + n <= MaxAsked
    /\ n_left' = n
    /\ calls' = calls + 1
    /\ asked' = asked + n
    /\ UNCHANGED <<lsys, mutate_vars, plant_vars, draw_vars, ui_vars, random_vars>>

\* one iteration of the loop of step: self.state = next_state
StepIteration ==
    /\ n_left > 0
    /\ \E next_state \in NextStates(lsys, Len(lsys.state)) :
            lsys' = [lsys EXCEPT !.state = next_state]
    /\ n_left' = n_left - 1
    /\ UNCHANGED <<calls, asked, mutate_vars, plant_vars, draw_vars, ui_vars, random_vars>>

NextStep ==
    \/ Reset
    \/ \E n \in 0..MaxN : StepCall(n)
    \/ StepIteration

SpecStep == InitStep /\ [][NextStep]_vars

-----------------------------------------------------------------------------
(* Plants under get_mutation, regrow and the pick of a child *)

\* Plants a chain of get_mutation calls leads to from a preset: the preset's
\* axiom and draw settings, X-rule candidates that operators 1, 2, 4, 6 and 8 have
\* cut down, weights and a length that have drifted
Descendants ==
    {<<"X" :> Str(<<"X">>), FERN_AXIOM, FERN_DRAW_SETTINGS, 50>>,
     <<"X" :> Str(<<"f", "X">>), FERN_AXIOM, FERN_DRAW_SETTINGS, 30>>,
     <<"X" :> Choice(<<(<<"X">>), (<<"x">>)>>, <<10, 10>>), BUSH_AXIOM, BUSH_DRAW_SETTINGS, 30>>,
     <<"X" :> Choice(<<(<<"[", "X", "]", "X">>), (<<"x">>)>>, <<4, 10>>),
       SPOOKY_AXIOM, SPOOKY_DRAW_SETTINGS, 13>>}

Init ==
    /\ plant \in {o.plant : o \in {q \in UNION {Plant(d[1], d[2], d[3], d[4]) : d \in Descendants} :
                                        q.raised = "none"}}
    /\ new_plant = NoPlant
    /\ error = "none"
    /\ picks = 0
    /\ MutateUnused
    /\ StepUnused
    /\ DrawUnused
    /\ UIUnused
    /\ RandomUnused

\* a get_mutation that builds the child in the Plant it is called on
GetMutationInPlace ==
    /\ error = "none"
    /\ new_plant = NoPlant
    /\ picks < MaxGenerations
    /\ \E out \in get_mutation(plant) :
        IF out.raised = "none"
        THEN new_plant' = out.plant /\ plant' = out.plant /\ error' = error
        ELSE new_plant' = new_plant /\ plant' = plant /\ error' = out.raised
    /\ UNCHANGED <<picks, mutate_vars, step_vars, draw_vars, ui_vars, random_vars>>

\* new_plant = plant.get_mutation()
GetMutation ==
    /\ error = "none"
    /\ new_plant = NoPlant
    /\ picks < MaxGenerations
    /\ \E out \in get_mutation(plant) :
        IF out.raised = "none"
        THEN new_plant' = out.plant /\ error' = error
        ELSE new_plant' = new_plant /\ error' = out.raised
    /\ UNCHANGED <<plant, picks, mutate_vars, step_vars, draw_vars, ui_vars, random_vars>>

\* plant.regrow().  get_mutation does not read what regrow writes (the state and
\* the render commands), so the two commute: regrow is taken before the call.
\* A Plant that get_mutation returned is in every state its regrow can leave.
Regrow ==
    /\ error = "none"
    /\ new_plant = NoPlant
    /\ picks = 0
    /\ \E out \in regrow(plant) :
        IF out.raised = "none"
        THEN plant' = out.plant /\ error' = error
        ELSE plant' = plant /\ error' = out.raised
    /\ UNCHANGED <<new_plant, picks, mutate_vars, step_vars, draw_vars, ui_vars, random_vars>>

\* the returned Plant is picked: the next mutations are made from it
Pick ==
    /\ error = "none"
    /\ new_plant # NoPlant
    /\ plant' = new_plant
    /\ new_plant' = NoPlant
    /\ picks' = picks + 1
    /\ UNCHANGED <<error, mutate_vars, step_vars, draw_vars, ui_vars, random_vars>>

\* the returned Plant is not picked: its option is removed
Discard ==
    /\ error = "none"
    /\ new_plant # NoPlant
    /\ new_plant' = NoPlant
    /\ UNCHANGED <<plant, error, picks, mutate_vars, step_vars, draw_vars, ui_vars, random_vars>>

Next == GetMutation \/ Regrow \/ Pick \/ Discard

Spec == Init /\ [][Next]_vars

\* the Plants that exist
Plants == {plant, new_plant} \ {NoPlant}

GetMutationKeepsParent ==
    [][new_plant = NoPlant /\ new_plant' # NoPlant => plant' = plant]_vars

\* get_mutation has returned a child with another rule and another length
\* than the parent's, which still has its own
ParentKeptItsRule ==
    /\ new_plant # NoPlant
    /\ plant.rules["X"] = Str(<<"f", "X">>)
    /\ plant.length = 30
    /\ new_plant.rules["X"] = Str(<<"X">>)
    /\ new_plant.length = 23

\* what one get_mutated_branch call can return on b
OnceMutated(b) == {o.branch : o \in {q \in get_mutated_branch(b) : q.raised = "none"}}

\* c is what exactly one, or exactly two successive, get_mutated_branch calls
\* can make of b
MutatedOnceOrTwice(b, c) ==
    \/ c \in OnceMutated(b)
    \/ \E m \in OnceMutated(b) : c \in OnceMutated(m)

\* C6: the child has the parent's axiom and draw settings and its kind of
\* X-rule with as many candidates, and each child candidate is the parent
\* candidate at the same position mutated once or twice.
ChildKeepsShape ==
    new_plant # NoPlant =>
        /\ new_plant.axiom = plant.axiom
        /\ new_plant.draw_settings = plant.draw_settings
        /\ new_plant.rules["X"].kind = plant.rules["X"].kind
        /\ Len(Candidates(new_plant.rules["X"])) = Len(Candidates(plant.rules["X"]))
        /\ \A j \in 1..Len(Candidates(plant.rules["X"])) :
            MutatedOnceOrTwice(Candidates(plant.rules["X"])[j],
                               Candidates(new_plant.rules["X"])[j])

\* the first candidate has been mutated once (X to x) and the second one twice
\* (x to X and back)
OnceAndTwice ==
    /\ new_plant # NoPlant
    /\ plant.rules["X"].kind = "choice"
    /\ plant.rules["X"].population = <<(<<"X">>), (<<"x">>)>>
    /\ new_plant.rules["X"].population = <<(<<"x">>), (<<"x">>)>>

\* C7: the length of the child lies between max(0.5, length - 0.35) and
\* min(2.5, length + 0.35) for the parent's length in [0.5, 2.5]; no length
\* leaves [0.5, 2.5].
ChildLengthInRange ==
    /\ \A p \in Plants : 10 <= p.length /\ p.length <= 50
    /\ new_plant # NoPlant =>
        /\ Max(10, plant.length - 7) <= new_plant.length
        /\ new_plant.length <= Min(50, plant.length + 7)

\* a parent of length 2.5 has a child of length 2.5: the upper clamp has cut
\* the range
LengthAtUpperClamp ==
    /\ new_plant # NoPlant
    /\ plant.length = 50
    /\ new_plant.length = 50

\* C8: each weight of the child lies between max(0.1, w - 0.15) and w + 0.15
\* for the parent's weight w at the same position; every weight is at least 0.1.
ChildWeightsInRange ==
    /\ \A p \in Plants :
        p.rules["X"].kind = "choice" =>
            \A j \in 1..Len(p.rules["X"].weights) : p.rules["X"].weights[j] >= 2
    /\ new_plant # NoPlant /\ plant.rules["X"].kind = "choice" =>
        /\ Len(new_plant.rules["X"].weights) = Len(plant.rules["X"].weights)
        /\ \A j \in 1..Len(plant.rules["X"].weights) :
            /\ Max(2, plant.rules["X"].weights[j] - 3) <= new_plant.rules["X"].weights[j]
            /\ new_plant.rules["X"].weights[j] <= plant.rules["X"].weights[j] + 3

\* a parent weight of 0.2 has become 0.1 in the child, the lower clamp having
\* cut the range, while the other weight has grown by 0.15
WeightAtLowerClamp ==
    /\ new_plant # NoPlant
    /\ plant.rules["X"].kind = "choice"
    /\ plant.rules["X"].weights = <<4, 10>>
    /\ new_plant.rules["X"].weights = <<2, 13>>

\* the images the rewriting contract gives a symbol: the fixed replacement
\* string, the candidates of weight greater than 0, or the symbol itself
AllowedImages(rules, symbol) ==
    IF symbol \notin DOMAIN rules THEN {<<symbol>>}
    ELSE IF rules[symbol].kind = "str" THEN {rules[symbol].string}
    ELSE {rules[symbol].population[j] :
            j \in {i \in 1..Len(rules[symbol].population) : rules[symbol].weights[i] > 0}}

RECURSIVE CanRewrite(_, _, _)
\* new is the in-order concatenation of one allowed image per symbol of old
CanRewrite(rules, old, new) ==
    IF old = <<>> THEN new = <<>>
    ELSE \E image \in AllowedImages(rules, Head(old)) :
            /\ Len(image) <= Len(new)
            /\ SubSeq(new, 1, Len(image)) = image
            /\ CanRewrite(rules, Tail(old), SubSeq(new, Len(image) + 1, Len(new)))

\* C9: each iteration of step replaces the state by the in-order concatenation
\* of the images of all symbols of the old state (the fixed string, a candidate
\* of weight greater than 0, the symbol itself when it has no rule); the state
\* changes in no other way but reset, and step(n) makes n iterations.
StepRewritesEverySymbol ==
    [][/\ n_left' = n_left - 1 => CanRewrite(lsys.rules, lsys.state, lsys'.state)
       /\ n_left = 0 /\ n_left' > 0 => n_left' = asked' - asked /\ lsys' = lsys
       /\ lsys'.state # lsys.state =>
            n_left' = n_left - 1 \/ (lsys'.state = lsys.axiom /\ asked' = 0)]_vars

\* two iterations of the system whose first candidate has weight 0 have given
\* A -> AB -> ABB: a weighted image, then a weighted image and a copied symbol
WeightedStepsDone ==
    /\ n_left = 0
    /\ asked = 2
    /\ "A" \in DOMAIN lsys.rules
    /\ lsys.rules["A"].kind = "choice"
    /\ lsys.rules["A"].weights = <<0, 2, 1>>
    /\ lsys.state = <<"A", "B", "B">>

\* every rule of the table is a fixed string
FixedRules(rules) == \A c \in DOMAIN rules : rules[c].kind = "str"

\* C10: with fixed-string rules only, the state after any sequence of step
\* calls since the reset, step(0) included, is the state one call step(a + b +
\* ...) gives from the axiom; A -> AB, B -> B from A gives AB after 1 step and
\* ABB after 2.
FixedStepsCompose ==
    n_left = 0 /\ FixedRules(lsys.rules) =>
        /\ {lsys} = step(reset(lsys), asked)
        /\ lsys = [AB_SYSTEM EXCEPT !.state = lsys.state] /\ asked = 1 => lsys.state = <<"A", "B">>
        /\ lsys = [AB_SYSTEM EXCEPT !.state = lsys.state] /\ asked = 2 => lsys.state = <<"A", "B", "B">>

\* two calls, step(a) then step(b) with a + b = 2, have run on A -> AB, B -> B
TwoCallsOnAB ==
    /\ n_left = 0
    /\ calls = 2
    /\ asked = 2
    /\ lsys = [AB_SYSTEM EXCEPT !.state = <<"A", "B", "B">>]

\* the candidates of the F-rule
LENGTH_CANDIDATES == <<(<<"F">>), (<<"F", "f">>), (<<"F", "F">>), (<<"F", "f", "F">>)>>

\* C13 as stated: the F-rule of a Plant of length 1.5, which get_length_rule(1.5)
\* returned, has weight 0.5 on 'F' and on 'Ff' and weight 0 on 'FF' and 'FfF'
LengthRuleOnFAndFf ==
    \A p \in Plants :
        p.length = 30 =>
            /\ p.rules["F"].population = LENGTH_CANDIDATES
            /\ p.rules["F"].weights = <<10, 10, 0, 0>>

\* C13, amended: the F-rule of a Plant of length 1.5, which get_length_rule(1.5)
\* returned, is over the candidates (F, Ff, FF, FfF) with weight 0.5 on 'Ff'
\* and on 'FF' and weight 0 on 'F' and 'FfF'
LengthRuleOnFfAndFF ==
    \A p \in Plants :
        p.length = 30 =>
            /\ p.rules["F"].kind = "choice"
            /\ p.rules["F"].population = LENGTH_CANDIDATES
            /\ p.rules["F"].weights = <<0, 10, 10, 0>>

\* a Plant of length 1.5 carries the F-rule get_length_rule(1.5) returned, and
\* a child has been made from it
LengthRuleInUse ==
    /\ plant.length = 30
    /\ plant.rules["F"].weights[2] > 0
    /\ new_plant # NoPlant

-----------------------------------------------------------------------------
(* One update_draw_settings call, followed iteration by iteration *)

\* update_draw_settings is called on every string over the alphabet of at most
\* this many symbols, and on the strings of DRAWN_EXAMPLES
MaxDraw == 3

DRAWN_EXAMPLES ==
    {<<"F", "[", "+", "F", "]", "F">>,
     <<"[", "+", "[", "F", "]", "F", "]", "F">>}

InitDraw ==
    /\ turtle \in {[status |-> "called", state |-> s, draw_settings |-> ds] :
                    s \in UNION {Strings(m) : m \in 0..MaxDraw} \cup DRAWN_EXAMPLES,
                    ds \in {ASPEN_DRAW_SETTINGS, SPOOKY_DRAW_SETTINGS}}
    /\ MutateUnused
    /\ StepUnused
    /\ PlantUnused
    /\ UIUnused
    /\ RandomUnused

\* the call, up to the loop
DrawCall ==
    /\ turtle.status = "called"
    /\ turtle' = DrawStarted(turtle.state, turtle.draw_settings)
    /\ UNCHANGED <<mutate_vars, step_vars, plant_vars, ui_vars, random_vars>>

\* for i in range(len(self.state) - 1): one iteration
DrawIteration ==
    /\ turtle.status = "running"
    /\ turtle.i < Len(turtle.state) - 1
    /\ turtle' = Iteration(turtle)
    /\ UNCHANGED <<mutate_vars, step_vars, plant_vars, ui_vars, random_vars>>

\* the loop is over: self.state = self.state[:-1], and the call returns
DrawReturn ==
    /\ turtle.status = "running"
    /\ turtle.i >= Len(turtle.state) - 1
    /\ turtle' = [turtle EXCEPT !.state = PyTake(turtle.state, -1), !.status = "returned"]
    /\ UNCHANGED <<mutate_vars, step_vars, plant_vars, ui_vars, random_vars>>

\* Plant.render is called on the plant whose pass has returned: nothing is
\* drawn yet; drawn lists the render_funcs called, in the order of the calls
RenderStarted(t) ==
    [status |-> "rendering", state |-> t.state, draw_settings |-> t.draw_settings,
     i |-> t.i, pos |-> t.pos, angle |-> t.angle, queue |-> t.queue, f |-> t.f,
     render_funcs |-> t.render_funcs, seen |-> t.seen, drawn |-> <<>>]

\* the loop of render goes through the list from its last entry to its first
RenderFuncCalledFromTheEnd(t) ==
    [t EXCEPT !.drawn = Append(@, t.render_funcs[Len(t.render_funcs) - Len(t.drawn)])]

\* for render_func in self.render_funcs: render_func(surface, camera), once
RenderFuncCalled(t) ==
    [t EXCEPT !.drawn = Append(@, t.render_funcs[Len(t.drawn) + 1])]

\* render(surface, camera) is called
RenderCall ==
    /\ turtle.status = "returned"
    /\ turtle' = RenderStarted(turtle)
    /\ UNCHANGED <<mutate_vars, step_vars, plant_vars, ui_vars, random_vars>>

\* one iteration of the loop of render
RenderIteration ==
    /\ turtle.status = "rendering"
    /\ Len(turtle.drawn) < Len(turtle.render_funcs)
    /\ turtle' = RenderFuncCalled(turtle)
    /\ UNCHANGED <<mutate_vars, step_vars, plant_vars, ui_vars, random_vars>>

\* the loop of render is over
RenderReturn ==
    /\ turtle.status = "rendering"
    /\ Len(turtle.drawn) >= Len(turtle.render_funcs)
    /\ turtle' = [turtle EXCEPT !.status = "rendered"]
    /\ UNCHANGED <<mutate_vars, step_vars, plant_vars, ui_vars, random_vars>>

NextDraw ==
    \/ DrawCall
    \/ DrawIteration
    \/ DrawReturn
    \/ RenderCall
    \/ RenderIteration
    \/ RenderReturn

SpecDraw == InitDraw /\ [][NextDraw]_vars

\* the (pos, angle) the pass had before the iteration on index k
CursorAt(t, k) == IF k < Len(t.seen) THEN t.seen[k + 1] ELSE <<t.pos, t.angle>>

\* the index of the '[' that the ']' at index j closes
MatchingOpen(s, j) ==
    CHOOSE m \in 0..(j - 1) :
        /\ s[m + 1] = "["
        /\ Depth(s, m) = Depth(s, j + 1)
        /\ \A k \in (m + 1)..j : Depth(s, k) > Depth(s, m)

\* C11: in a pass over a properly nested string, once a ']' has been processed
\* the position and the heading are those the pass had when it came to the
\* matching '['; over "F[+F]F" the third trunk segment (inserted in front of
\* the two others) starts where the first one ended and not at the end of the
\* second, the branch
RestoredAtMatchingOpen ==
    (turtle.status \in {"running", "returned"} /\ ProperlyNested(turtle.state)) =>
        /\ \A j \in 0..(turtle.i - 1) :
                turtle.state[j + 1] = "]" =>
                    CursorAt(turtle, j + 1) = CursorAt(turtle, MatchingOpen(turtle.state, j))
        /\ (turtle.status = "returned" /\ turtle.state = <<"F", "[", "+", "F", "]", "F">>) =>
                /\ Len(turtle.render_funcs) = 3
                /\ turtle.render_funcs[1].start = turtle.render_funcs[3].end
                /\ turtle.render_funcs[1].start # turtle.render_funcs[2].end

\* the pass over "[+[F]F]F" has returned: the state saved at the inner '[' was
\* restored first, the trunk after the last ']' starts at the origin, heading up
NestedBranchesDrawn ==
    /\ turtle.status = "returned"
    /\ turtle.state = <<"[", "+", "[", "F", "]", "F", "]", "F">>
    /\ turtle.seen[6] = turtle.seen[3]
    /\ turtle.seen[6][2] = 90 + turtle.draw_settings.angle
    /\ turtle.render_funcs[1].start = <<>>
    /\ turtle.angle = 90

\* C12: the iteration that meets a ']' while no state is saved ends the pass
\* with an error: the pass stops at that symbol, the later symbols are not
\* processed and the call is over
EmptyPopIsFatal ==
    [][(/\ turtle.status = "running"
        /\ turtle.i < Len(turtle.state) - 1
        /\ turtle.state[turtle.i + 1] = "]"
        /\ turtle.queue = <<>>)
            => (turtle'.status = "raised" /\ turtle'.i = turtle.i)]_vars

\* the state the pass scans: self.state with the ' ' put after it
Padded(t) == IF t.status \in {"running", "blocked"} THEN t.state ELSE t.state \o <<" ">>

\* the indices below i at which a maximal run of 'F'/'f' of s ends
RunEnds(s, i) ==
    {e \in 0..(i - 1) : s[e + 1] \in {"F", "f"} /\ s[e + 2] \notin {"F", "f"}}

\* the index at which the run of 'F'/'f' that ends at index e begins
RunStart(s, e) ==
    CHOOSE b \in 0..e :
        /\ \A k \in b..e : s[k + 1] \in {"F", "f"}
        /\ b = 0 \/ s[b] \notin {"F", "f"}

\* the indices below i of the 'X'/'x' of s
Leaves(s, i) == {k \in 0..(i - 1) : s[k + 1] \in {"X", "x"}}

\* the command the claim has for index k of the scan: the trunk of the whole
\* run that ends there, from where the pass stood when the run began, or the
\* leaf at the cursor of that moment
CommandOf(t, k) ==
    LET ds == t.draw_settings
        s == Padded(t)
    IN  IF s[k + 1] \in {"F", "f"}
        THEN LET b == RunStart(s, k)
                 at == CursorAt(t, b)
             IN  draw_trunk(at[1],
                            Moved(at[1], at[2], (k - b + 1) * ds.trunk_segment_length),
                            ds.trunk_width, ds.trunk_color_generator)
        ELSE LET at == CursorAt(t, k)
             IN  draw_leaf(ds.leaf_type, at[1], at[2], ds.leaf_radius,
                           ds.leaf_color_generator)

\* C21: at every moment of a pass the commands emitted so far are, one for
\* one, a trunk command for each maximal run of 'F'/'f' that has ended (the
\* run at the end of the string included), from the position at the run to
\* that position moved by run length times trunk_segment_length along the
\* heading at the run, and a leaf command for each 'X'/'x' at the cursor of
\* that moment; the run counter is 0 when the pass comes to a symbol that is
\* not 'F'/'f' and is the length of the run so far otherwise
OneCommandPerRunAndLeaf ==
    turtle.status \in {"running", "blocked", "returned"} =>
        LET s == Padded(turtle)
            emitting == RunEnds(s, turtle.i) \cup Leaves(s, turtle.i)
        IN  /\ Len(turtle.render_funcs) = Cardinality(emitting)
            /\ \A k \in emitting :
                    Cardinality({j \in DOMAIN turtle.render_funcs :
                                    turtle.render_funcs[j] = CommandOf(turtle, k)})
                        = Cardinality({m \in emitting :
                                        CommandOf(turtle, m) = CommandOf(turtle, k)})
            /\ s[turtle.i + 1] \notin {"F", "f"} => turtle.f = 0
            /\ \A b \in 0..(turtle.i - 1) :
                    (/\ \A k \in b..turtle.i : s[k + 1] \in {"F", "f"}
                     /\ b = 0 \/ s[b] \notin {"F", "f"}) => turtle.f = turtle.i - b

\* the pass over "XFF" has returned: one leaf at the origin and one trunk of
\* two segments for the run that ends the string
RunAtTheEndDrawn ==
    /\ turtle.status = "returned"
    /\ turtle.state = <<"X", "F", "F">>
    /\ Len(turtle.render_funcs) = 2
    /\ turtle.render_funcs[1].func = "draw_trunk"
    /\ turtle.render_funcs[1].end =
            Moved(<<>>, 90, 2 * turtle.draw_settings.trunk_segment_length)
    /\ turtle.render_funcs[2].func = "draw_leaf"
    /\ turtle.render_funcs[2].center = <<>>

\* the n-th smallest member of the set S of indices
Nth(S, n) == CHOOSE k \in S : Cardinality({m \in S : m < k}) = n - 1

\* the members of S in scan order
InOrder(S) == [n \in 1..Cardinality(S) |-> Nth(S, n)]

\* C22: at every moment of a pass and after it the render command list is the
\* trunk commands emitted so far, the one emitted last first, followed by the
\* leaf commands emitted so far, the one emitted first first; render calls the
\* commands of the list from the first to the last
TrunksReversedThenLeaves ==
    turtle.status \in {"running", "blocked", "returned", "rendering", "rendered"} =>
        LET s == Padded(turtle)
            ends == InOrder(RunEnds(s, turtle.i))
            leaves == InOrder(Leaves(s, turtle.i))
        IN  /\ Len(turtle.render_funcs) = Len(ends) + Len(leaves)
            /\ \A n \in 1..Len(ends) :
                    turtle.render_funcs[n] = CommandOf(turtle, ends[Len(ends) - n + 1])
            /\ \A n \in 1..Len(leaves) :
                    turtle.render_funcs[Len(ends) + n] = CommandOf(turtle, leaves[n])
            /\ turtle.status \in {"rendering", "rendered"} =>
                    turtle.drawn = SubSeq(turtle.render_funcs, 1, Len(turtle.drawn))
            /\ turtle.status = "rendered" => turtle.drawn = turtle.render_funcs

\* the plant of state "XFx" has been rendered: the trunk first, although the
\* leaf at the origin was emitted before it, then that leaf, then the leaf at
\* the end of the trunk
LeavesAfterTrunkRendered ==
    /\ turtle.status = "rendered"
    /\ turtle.state = <<"X", "F", "x">>
    /\ Len(turtle.drawn) = 3
    /\ turtle.drawn[1].func = "draw_trunk"
    /\ turtle.drawn[2].func = "draw_leaf"
    /\ turtle.drawn[2].center = <<>>
    /\ turtle.drawn[3].center = turtle.drawn[1].end

\* C23 as stated: of two trunk segments of a pass render draws the one
\* processed later in the scan after the one processed earlier, i.e. the
\* trunk commands are called in scan order
LaterTrunkDrawnLater ==
    turtle.status = "rendered" =>
        LET ends == InOrder(RunEnds(Padded(turtle), turtle.i))
        IN  \A a, b \in 1..Len(ends) :
                a < b => /\ turtle.drawn[a] = CommandOf(turtle, ends[a])
                         /\ turtle.drawn[b] = CommandOf(turtle, ends[b])

\* C23: of two trunk segments of a pass render draws the one processed later
\* in the scan before the one processed earlier: with nt trunk segments the
\* a-th of the scan is the (nt - a + 1)-th call of render, so the segment
\* processed earlier is the one drawn on top
LaterTrunkDrawnEarlier ==
    turtle.status = "rendered" =>
        LET ends == InOrder(RunEnds(Padded(turtle), turtle.i))
            nt == Len(ends)
        IN  \A a, b \in 1..nt :
                a < b => /\ turtle.drawn[nt - a + 1] = CommandOf(turtle, ends[a])
                         /\ turtle.drawn[nt - b + 1] = CommandOf(turtle, ends[b])
                         /\ nt - b + 1 < nt - a + 1

\* the plant of state "F[+F]F" has been rendered: the segment after the ']',
\* processed last, was drawn first and the first segment of the scan, from
\* the origin, last of the three
LastTrunkRenderedFirst ==
    /\ turtle.status = "rendered"
    /\ turtle.state = <<"F", "[", "+", "F", "]", "F">>
    /\ Len(turtle.drawn) = 3
    /\ turtle.drawn[3].start = <<>>
    /\ turtle.drawn[1].start = turtle.drawn[3].end
    /\ turtle.drawn[1].end = Moved(<<>>, 90, 2 * turtle.draw_settings.trunk_segment_length)

-----------------------------------------------------------------------------
(* ui.py, main.py: the MutationWindow.  An option is named by the Plant it *)
(* shows; ui_elements lists the options among the elements of the         *)
(* UIManager (the window, the texts and the preset buttons stay in it).    *)

\* pick shows the mutations whose X-rule candidates have at most this many
\* symbols
MaxShown == 1

\* a pick is followed when its five get_mutation calls returned at most this
\* many different Plants
MaxKinds == 1

\* the number of pick calls followed
MaxPicks == 2

\* one outcome of DrawSettings.get_random()
RANDOM_DRAW_SETTINGS ==
    DrawSettings(15, 3, 2, {<<100, 100, 100>>}, 3, 0, {<<100, 100, 100>>})

\* the outcomes of get_mutation that a pick goes on with
Shown(outcomes) ==
    {o \in outcomes :
        \/ o.raised # "none"
        \/ LET branches == Candidates(o.plant.rules["X"])
           IN  \A j \in 1..Len(branches) : Len(branches[j]) <= MaxShown}

\* [option.get_mutation() for _ in range(5)]: the list, or what the first call
\* that failed raised
Mutations(option) ==
    LET outcomes == Shown(get_mutation(option))
        made == {o.plant : o \in {q \in outcomes : q.raised = "none"}}
        kinds == {K \in SUBSET made : K # {} /\ Cardinality(K) <= MaxKinds}
    IN  {[raised |-> o.raised, plants |-> <<>>] : o \in {q \in outcomes : q.raised # "none"}}
        \cup {[raised |-> "none", plants |-> l] : l \in UNION {[1..5 -> K] : K \in kinds}}

RECURSIVE Options(_, _)
\* the MutationOption objects made for the first i Plants of the list: each
\* constructor regrows its Plant in place six times and renders it
Options(plants, i) ==
    IF i = 0 THEN {[raised |-> "none", options |-> <<>>]}
    ELSE UNION {IF prev.raised # "none" THEN {prev}
                ELSE {[raised |-> o.raised,
                       options |-> IF o.raised = "none" THEN Append(prev.options, o.plant)
                                   ELSE prev.options] : o \in regrow(plants[i])} :
                prev \in Options(plants, i - 1)}

\* the window and the process after self.pick(option); picked is the Plant the
\* call was made with.  Nothing in pick, in the
\* listener that called it, in EventManager.update or in the main loop catches
\* an exception, so one that get_mutation or a constructor raises ends the
\* process; queue.get() on an empty queue leaves it waiting
pick(self, option) ==
    LET removed == [self EXCEPT !.ui_elements = <<>>, !.picks = @ + 1, !.picked = option]
        stopped(e) == [removed EXCEPT !.error = e,
                                      !.status = IF e = "blocked" THEN "blocked" ELSE "exited"]
    IN  UNION {IF m.raised # "none" THEN {stopped(m.raised)}
               ELSE {IF o.raised # "none" THEN stopped(o.raised)
                     ELSE [removed EXCEPT !.options = o.options, !.ui_elements = o.options] :
                        o \in Options(<<option>> \o m.plants, 6)} :
               m \in Mutations(option)}

\* Plants the preset buttons and the Randomize button ask for: descendants of
\* the Fern, and Plants of rules that get_random_rules returns when its passes
\* cut the first branch down to 'F' and the second one to nothing
Requested ==
    {o.plant : o \in {q \in Plant("X" :> Str(<<"X">>), FERN_AXIOM, FERN_DRAW_SETTINGS, 50)
                            \cup Plant("X" :> Str(<<"x">>), FERN_AXIOM, FERN_DRAW_SETTINGS, 30)
                            \cup Plant(("X" :> Choice(<<(<<"F">>), <<>>>>, <<10, 10>>))
                                            @@ get_length_rule(20),
                                       <<"X">>, RANDOM_DRAW_SETTINGS, 30) :
                        q.raised = "none"}}

InitUI ==
    /\ ui = [status |-> "running", options |-> <<>>, ui_elements |-> <<>>,
             error |-> "none", picks |-> 0, picked |-> NoPlant, clicked |-> -1]
    /\ MutateUnused
    /\ StepUnused
    /\ PlantUnused
    /\ DrawUnused
    /\ RandomUnused

\* a button is released over: plant_window.pick(option=Plant(...))
PickPlant ==
    /\ ui.status = "running"
    /\ ui.picks < MaxPicks
    /\ \E option \in Requested : ui' \in pick([ui EXCEPT !.clicked = -1], option)
    /\ UNCHANGED <<mutate_vars, step_vars, plant_vars, draw_vars, random_vars>>

\* the k-th option is released over (clicked records k): its function,
\* lambda: self.pick(plant),
\* reads the variable plant of the comprehension that made the options, which
\* holds the last Plant of the list
ClickOption(k) ==
    /\ ui.status = "running"
    /\ ui.picks < MaxPicks
    /\ k < Len(ui.ui_elements)
    /\ ui' \in pick([ui EXCEPT !.clicked = k], ui.options[Len(ui.options)])
    /\ UNCHANGED <<mutate_vars, step_vars, plant_vars, draw_vars, random_vars>>

NextUI == PickPlant \/ \E k \in 0..5 : ClickOption(k)

SpecUI == InitUI /\ [][NextUI]_vars

\* C14: when get_mutation or the construction of a mutated Plant fails in a
\* request that pick handles, only the request is given up: the process keeps
\* running and the options shown before the request stay registered and shown
FailedPickContained ==
    [][(ui.error = "none" /\ ui'.error # "none") =>
            /\ ui'.status = "running"
            /\ ui'.ui_elements = ui.ui_elements
            /\ ui'.options = ui.options]_vars

\* C24: a step in which the k-th of the displayed options is activated calls
\* pick with the Plant displayed in that k-th option, for every k in 0..5 and
\* whatever was picked before
OptionPicksItsPlant ==
    [][(ui'.picks = ui.picks + 1 /\ ui'.clicked >= 0) =>
            ui'.picked = ui.options[ui'.clicked + 1]]_vars

\* C25: the rule for 'F' of every Plant the window shows or was asked to pick
\* (a preset, a Plant that get_mutation returned, a Plant built from
\* get_random_rules()) is get_length_rule of that Plant's own length
ForwardRuleFromOwnLength ==
    ui.status # "unused" =>
        /\ \A j \in 1..Len(ui.options) :
                ui.options[j].rules["F"] = get_length_rule(ui.options[j].length)["F"]
        /\ ui.picked # NoPlant =>
                ui.picked.rules["F"] = get_length_rule(ui.picked.length)["F"]

-----------------------------------------------------------------------------
(* One Plant.get_random_rules call, followed pass by pass *)

\* get_random_rules is followed from the first branches of at most this many
\* symbols
MaxRandomLen == 12

\* a pass of get_random_rules is followed when it makes the branch longer by at
\* most this many symbols
MaxLonger == 0

\* the tokens random.choices draws from
PALETTE ==
    <<(<<"F">>), (<<"f">>), (<<"f", "F">>), (<<"F", "f">>), (<<"f", "f">>),
      (<<"-", "F">>), (<<"-", "f">>), (<<"+", "F">>), (<<"+", "f">>),
      (<<"-">>), (<<"-">>), (<<"-", "-">>), (<<"-", "-", "-">>),
      (<<"-", "-", "f", "-">>), (<<"-", "-", "F", "-">>),
      (<<"+">>), (<<"+">>), (<<"+", "+">>), (<<"+", "+", "+">>),
      (<<"+", "+", "f", "+">>), (<<"+", "+", "F", "+">>),
      (<<"[", "-", "f", "X", "]">>), (<<"[", "-", "f", "-", "X", "]">>),
      (<<"[", "+", "f", "X", "]">>), (<<"[", "+", "f", "+", "X", "]">>),
      (<<"[", "-", "f", "x", "]">>), (<<"[", "-", "f", "-", "x", "]">>),
      (<<"[", "+", "f", "x", "]">>), (<<"[", "+", "f", "+", "x", "]">>)>>

RECURSIVE Joined(_, _)
\* ''.join of k times the token
Joined(token, k) == IF k = 0 THEN <<>> ELSE token \o Joined(token, k - 1)

\* 'F' + ''.join(random.choices(PALETTE, k=random.randint(10, 15))), for the
\* draws of k times the same rotation token
FirstBranches ==
    {b \in {<<"F">> \o Joined(PALETTE[t], k) :
                t \in {j \in 1..Len(PALETTE) : PALETTE[j] \in {<<"-">>, <<"+">>}},
                k \in 10..15} :
        Len(b) <= MaxRandomLen}

InitRandom ==
    /\ rules_call = [pc |-> "called"]
    /\ MutateUnused
    /\ StepUnused
    /\ PlantUnused
    /\ DrawUnused
    /\ UIUnused

\* get_random_rules up to the first loop
RandomStart ==
    /\ rules_call.pc = "called"
    /\ \E u \in uniform(20, 40), b \in FirstBranches, n \in 7..10 :
            rules_call' = [pc |-> "first", length_rules |-> get_length_rule(u),
                           branch_rule_1 |-> b, branch_rule_2 |-> <<>>, left |-> n,
                           raised |-> "none"]
    /\ UNCHANGED <<mutate_vars, step_vars, plant_vars, draw_vars, ui_vars>>

\* branch_rule_1 = get_mutated_branch(branch_rule_1)
FirstPass ==
    /\ rules_call.pc = "first"
    /\ rules_call.left > 0
    /\ \E out \in get_mutated_branch(rules_call.branch_rule_1) :
            /\ Len(out.branch) <= Len(rules_call.branch_rule_1) + MaxLonger
            /\ rules_call' = IF out.raised # "none"
                             THEN [rules_call EXCEPT !.pc = "raised", !.raised = out.raised]
                             ELSE [rules_call EXCEPT !.branch_rule_1 = out.branch,
                                                     !.left = @ - 1]
    /\ UNCHANGED <<mutate_vars, step_vars, plant_vars, draw_vars, ui_vars>>

\* branch_rule_2 = branch_rule_1, and the second loop is entered
SecondStart ==
    /\ rules_call.pc = "first"
    /\ rules_call.left = 0
    /\ \E n \in 2..4 :
            rules_call' = [rules_call EXCEPT !.pc = "second",
                                             !.branch_rule_2 = rules_call.branch_rule_1,
                                             !.left = n]
    /\ UNCHANGED <<mutate_vars, step_vars, plant_vars, draw_vars, ui_vars>>

\* branch_rule_2 = get_mutated_branch(branch_rule_2)
SecondPass ==
    /\ rules_call.pc = "second"
    /\ rules_call.left > 0
    /\ \E out \in get_mutated_branch(rules_call.branch_rule_2) :
            /\ Len(out.branch) <= Len(rules_call.branch_rule_2) + MaxLonger
            /\ rules_call' = IF out.raised # "none"
                             THEN [rules_call EXCEPT !.pc = "raised", !.raised = out.raised]
                             ELSE [rules_call EXCEPT !.branch_rule_2 = out.branch,
                                                     !.left = @ - 1]
    /\ UNCHANGED <<mutate_vars, step_vars, plant_vars, draw_vars, ui_vars>>

\* return length_rules | growth_rules
RandomReturn ==
    /\ rules_call.pc = "second"
    /\ rules_call.left = 0
    /\ rules_call' =
            [pc |-> "returned",
             rules |-> ("X" :> Choice(<<rules_call.branch_rule_1, rules_call.branch_rule_2>>,
                                      <<10, 10>>)) @@ rules_call.length_rules]
    /\ UNCHANGED <<mutate_vars, step_vars, plant_vars, draw_vars, ui_vars>>

NextRandom == RandomStart \/ FirstPass \/ SecondStart \/ SecondPass \/ RandomReturn

SpecRandom == InitRandom /\ [][NextRandom]_vars

\* C15: whatever get_random_rules draws, the call raises nothing, and the rules
\* it returns hold an X-rule of exactly two properly nested candidates with the
\* weights (0.5, 0.5)
RandomRulesComplete ==
    /\ rules_call.pc # "raised"
    /\ rules_call.pc = "returned" =>
            /\ rules_call.rules["X"].kind = "choice"
            /\ Len(rules_call.rules["X"].population) = 2
            /\ \A j \in 1..2 : ProperlyNested(rules_call.rules["X"].population[j])
            /\ rules_call.rules["X"].weights = <<10, 10>>

=============================================================================
